---- MODULE Spec2Model ----
(***************************************************************************)
(* Model of the WhatsApp revenue copilot: the resilience layer             *)
(* (shared/error_handling.py: CircuitBreaker, retry_on_error), and the     *)
(* two LangGraph agents (agentA_knowledge/graph.py,                        *)
(* agentB_dealflow/graph.py).                                              *)
(*                                                                         *)
(* Each component has its own specification over the same variables:       *)
(*   SpecBreaker  sequential calls through one CircuitBreaker              *)
(*   SpecRetry    one call of a function wrapped by retry_on_error         *)
(*   SpecCompose  breaker.call(retry_on_error(operation))                  *)
(*   SpecGraph    full-graph runs of KnowledgeAgent.ask / .ingest and      *)
(*                DealflowAgent.newlead                                    *)
(***************************************************************************)
EXTENDS Integers, Sequences, FiniteSets, TLC

(***************************************************************************)
(* Bounds of the model.                                                    *)
(***************************************************************************)
MaxCalls == 4
MaxComposeCalls == 2
MaxComposeTime == 3
MaxComposeThreshold == 2
MaxTime == 5
MaxThreshold == 3
MaxResetTimeout == 2
MaxRetries == 3
MaxDelay == 2
MaxBackoff == 3

\* threads calling one breaker at the same time
MaxThreads == 3

\* requests served at the same time by one agent instance
MaxRequests == 2

VARIABLES
  \* ---- CircuitBreaker (error_handling.py:319-358) ----
  failure_threshold,   \* self.failure_threshold
  reset_timeout,       \* self.reset_timeout
  failure_count,       \* self.failure_count
  last_failure_time,   \* self.last_failure_time (NoTime models None)
  state,               \* self.state: "CLOSED", "OPEN", "HALF_OPEN"
  now,                 \* the clock read by datetime.now().timestamp()
  b_pc,                \* position of the caller inside CircuitBreaker.call
  b_entry,             \* what the running call saw when it entered
  hist,                \* completed calls through the breaker, oldest first
  \* ---- retry_on_error wrapper (error_handling.py:104-141) ----
  max_retries,         \* decorator argument max_retries
  delay,               \* decorator argument delay
  backoff_factor,      \* decorator argument backoff_factor
  r_pc,                \* position inside wrapper: "idle", "try", "done"
  attempt,             \* loop variable of `for attempt in range(...)`
  current_delay,       \* local current_delay
  last_exception,      \* local last_exception
  logger_bound,        \* whether the local name `logger` has been assigned
  outcomes,            \* what each invocation of func did, in order
  sleeps,              \* arguments passed to time.sleep, in order
  r_result,            \* what the wrapper delivered to its caller
  \* ---- the agents' graphs (agentA_knowledge/graph.py, agentB_dealflow/graph.py) ----
  g_api,               \* the API method that is running: "ask", "ingest", "newlead"
  g_node,              \* the node the compiled graph runs next
  kstate,              \* the KnowledgeState of the run
  dstate,              \* the DealflowState of the run
  g_trace,             \* the nodes executed by this run, in order
  g_err_at,            \* position in g_trace of the first node that wrote `error` (0: none)
  ext_calls,           \* the calls made to external collaborators, in order
  g_result,            \* what the API method delivered to its caller
  \* ---- threads calling one CircuitBreaker concurrently ----
  t_pc,                \* per thread: its position inside CircuitBreaker.call
  t_read,              \* per thread: the failure_count it loaded for `+= 1`
  \* ---- requests served concurrently by one agent instance ----
  runs,                \* per request: the node it runs next, its state, its result
  \* ---- IntentClassifier.classify (shared/intent_classifier.py) ----
  cl_pc,               \* "idle", "called", "returned"
  cl_request,          \* the arguments message, has_attachments, context
  cl_calls,            \* number of calls made to self.llm.invoke
  cl_outcome,          \* what the model call did, if it was made
  cl_result,           \* what classify delivered
  \* ---- handle_errors (shared/error_handling.py) ----
  h_error_type,        \* the decorator's error_type
  h_default,           \* the decorator's default_response
  h_logging,           \* whether the function's logger emits ERROR records
  h_pc,                \* "idle", "done"
  h_raised,            \* what the decorated function did
  h_result             \* what the wrapper delivered

bvars == <<failure_threshold, reset_timeout, failure_count, last_failure_time,
           state, now, b_pc, b_entry, hist>>
rvars == <<max_retries, delay, backoff_factor, r_pc, attempt, current_delay,
           last_exception, logger_bound, outcomes, sleeps, r_result>>
gvars == <<g_api, g_node, kstate, dstate, g_trace, g_err_at, ext_calls, g_result>>
tvars == <<t_pc, t_read>>
qvars == <<runs>>
clvars == <<cl_pc, cl_request, cl_calls, cl_outcome, cl_result>>
hvars == <<h_error_type, h_default, h_logging, h_pc, h_raised, h_result>>
vars == <<failure_threshold, reset_timeout, failure_count, last_failure_time,
          state, now, b_pc, b_entry, hist,
          max_retries, delay, backoff_factor, r_pc, attempt, current_delay,
          last_exception, logger_bound, outcomes, sleeps, r_result,
          g_api, g_node, kstate, dstate, g_trace, g_err_at, ext_calls, g_result,
          t_pc, t_read, runs, cl_pc, cl_request, cl_calls, cl_outcome, cl_result,
          h_error_type, h_default, h_logging, h_pc, h_raised, h_result>>

\* what an action of one component leaves alone
outside_resilience == <<gvars, tvars, qvars, clvars, hvars>>
outside_graph == <<bvars, rvars, tvars, qvars, clvars, hvars>>
outside_threads == <<rvars, gvars, qvars, clvars, hvars>>
outside_runs == <<bvars, rvars, gvars, tvars, clvars, hvars>>
outside_classifier == <<bvars, rvars, gvars, tvars, qvars, hvars>>
outside_handler == <<bvars, rvars, gvars, tvars, qvars, clvars>>

(***************************************************************************)
(* Errors.  An error object is a record: its class, its error_code, the    *)
(* attempt of the wrapped call that raised it (0 when it was not raised by *)
(* the wrapped operation) and the attempt count it carries (0: it carries  *)
(* none).                                                                  *)
(***************************************************************************)
NoTime == -1

NoError == [kind |-> "none", code |-> "none", raised_at |-> 0, attempts |-> 0]

Ok == [kind |-> "ok", code |-> "none", raised_at |-> 0, attempts |-> 0]

\* CopilotError.__init__: error_code defaults to GENERAL_ERROR
CopilotErrorObj(kind, code, at) ==
  [kind |-> kind, code |-> code, raised_at |-> at, attempts |-> 0]

\* the classes named by `except (IntegrationError, ConnectionError, TimeoutError)`
TransientKinds == {"IntegrationError", "ConnectionError", "TimeoutError"}

\* errors the wrapped operation may raise at attempt `at`
OperationErrors(at) ==
  { CopilotErrorObj("IntegrationError", "GENERAL_ERROR", at),
    CopilotErrorObj("IntegrationError", "CIRCUIT_BREAKER_OPEN", at),
    CopilotErrorObj("ConnectionError", "none", at),
    CopilotErrorObj("TimeoutError", "none", at),
    CopilotErrorObj("ValidationError", "VALIDATION_ERROR", at),
    CopilotErrorObj("ValueError", "none", at) }

IsTransient(e) == e.kind \in TransientKinds

IsError(e) == e.kind \notin {"none", "ok"}

(***************************************************************************)
(* Pipeline state of the two agents.  Texts are drawn from a few concrete  *)
(* messages, each described by what the code asks of it.                   *)
(***************************************************************************)
\* n_results=5 in collection.query
NResults == 5

\* confidence of the fixed no-information answer (0.1), in hundredths
NoInfoConfidence == 10

\* _self_reflect issues its quality check below 0.6 and appends the
\* clarification note below 0.3 (hundredths)
ReflectBelow == 60

ClarifyBelow == 30

\* a question text: whether Python finds it truthy, whether it contains one of
\* the scheduling keywords of _self_reflect, and the keys that
\* _extract_time_info finds in it
Query(id, truthy, kw, keys) ==
  [id |-> id, truthy |-> truthy, kw |-> kw, keys |-> keys]

Q_empty == Query("", FALSE, FALSE, {})

Q_blank == Query("   ", TRUE, FALSE, {})

Q_plain == Query("What is the refund policy?", TRUE, FALSE, {})

Q_when == Query("When is support available?", TRUE, TRUE, {})

Q_sched == Query("Schedule a meeting tomorrow at 10am", TRUE, TRUE, {"time", "day"})

Q_about == Query("Tell me about pricing", TRUE, FALSE, {"about"})

\* query.strip() is empty
IsBlank(q) == q.id \in {"", "   "}

Queries == {Q_empty, Q_blank, Q_plain, Q_when, Q_sched, Q_about}

\* follow_up_info: None, the dict of _extract_time_info, or the schedule
\* written by _parse_scheduling (start: days after today and hour; dur: hours)
NoFollowUp == [kind |-> "None", keys |-> {}, day |-> 0, hour |-> 0, dur |-> 0]

Extracted(keys) == [kind |-> "extracted", keys |-> keys, day |-> 0, hour |-> 0, dur |-> 0]

Schedule(day, hour, dur) ==
  [kind |-> "schedule", keys |-> {}, day |-> day, hour |-> hour, dur |-> dur]

FollowUpTruthy_NotNone(f) == f.kind # "None"

\* Python truthiness of follow_up_info
FollowUpTruthy(f) ==
  \/ f.kind = "schedule"
  \/ (f.kind = "extracted" /\ f.keys # {})

\* Python truthiness of the error field (None and "" are falsy)
ErrorTruthy(e) == e \notin {"None", ""}

\* answer text: where it came from and how many clarification notes follow it
Answer(base, notes) == [base |-> base, notes |-> notes]

\* KnowledgeState as built by ask / ingest (lines 385-397, 414-426)
InitialKState(q, file) ==
  [query |-> q, drive_file_id |-> file, chunks |-> 0, retrieved_docs |-> <<>>,
   answer |-> Answer("", 0), citations |-> <<>>, confidence |-> 0,
   follow_up_info |-> NoFollowUp, error |-> "None"]

\* status_info: None or the dict written by _classify_status
StatusInfo(label, reason_category, reason_summary) ==
  [label |-> label, reason_category |-> reason_category,
   reason_summary |-> reason_summary]

NoStatusInfo == StatusInfo("None", "None", "None")

\* schedule_info: None or the dict written by _parse_schedule; start and end
\* are minutes counted from the start of today, end is None when kind says so
ScheduleInfo(kind, title, start, end) ==
  [kind |-> kind, title |-> title, start |-> start, end |-> end]

NoScheduleInfo == ScheduleInfo("None", "", 0, 0)

\* DealflowState as built by newlead (lines 419-428)
InitialDState(raw) ==
  [raw_text |-> raw, parsed_lead |-> "None", enriched_lead |-> "None",
   schedule_info |-> NoScheduleInfo, status_info |-> NoStatusInfo,
   error |-> "None"]

NoResult ==
  [kind |-> "none", answer |-> Answer("", 0), citations |-> <<>>,
   confidence |-> 0, message |-> "None", schedule |-> NoFollowUp,
   next_step |-> NoScheduleInfo, status |-> NoStatusInfo]

\* no request is running
GraphIdle ==
  /\ g_api = "none"
  /\ g_node = "idle"
  /\ kstate = InitialKState(Q_empty, "None")
  /\ dstate = InitialDState("")
  /\ g_trace = <<>>
  /\ g_err_at = 0
  /\ ext_calls = <<>>
  /\ g_result = NoResult

(***************************************************************************)
(* IntentClassifier.  Confidence is kept in hundredths.                    *)
(***************************************************************************)
\* the intents listed in Field(enum=[...]) of IntentClassification.intent
Intents ==
  {"knowledge_qa", "lead_capture", "proposal_request", "next_step",
   "status_update", "smalltalk", "unknown"}

\* ExtractedEntities: five lists, each [] by default
ExtractedEntities(names, organizations) ==
  [names |-> names, organizations |-> organizations, dates_times |-> <<>>,
   budget_amounts |-> <<>>, contact_info |-> <<>>]

EmptyEntities == ExtractedEntities(<<>>, <<>>)

\* a reasoning string: its fixed text and the text interpolated after it
Reasoning(text, detail) == [text |-> text, detail |-> detail]

\* IntentClassification(intent=..., confidence=..., entities=..., reasoning=...)
IntentClassification(intent, confidence, entities, reasoning) ==
  [intent |-> intent, confidence |-> confidence, entities |-> entities,
   reasoning |-> reasoning]

NoClassification == IntentClassification("", 0, EmptyEntities, Reasoning("", ""))

\* what a call of classify delivers to its caller
Returned(c) == [kind |-> "returned", value |-> c, error |-> ""]

Raised(e) == [kind |-> "raised", value |-> NoClassification, error |-> e]

NotDelivered == [kind |-> "none", value |-> NoClassification, error |-> ""]

\* the arguments of classify
ClassifyRequest(message, has_attachments, context) ==
  [message |-> message, has_attachments |-> has_attachments, context |-> context]

Messages == {"", "What's our refund policy?", "John from Acme wants a PoC, budget 10k"}

Contexts == {"None", "We spoke about Acme yesterday"}

ClassifyRequests ==
  { ClassifyRequest(m, a, c) : m \in Messages, a \in BOOLEAN, c \in Contexts }

NoRequest == ClassifyRequest("", FALSE, "None")

\* what self.llm.invoke followed by self.parser.parse can do: the call raises,
\* the response does not parse into IntentClassification, or it parses.  The
\* parser checks the field types only: intent is any string, confidence any
\* number (the enum of Field is schema text given to the model, line 26).
NoOutcome == [kind |-> "not_called", error |-> "", value |-> NoClassification]

ModelOutcomes ==
  { [kind |-> "call_failed", error |-> "Connection error", value |-> NoClassification],
    [kind |-> "unparsable", error |-> "Failed to parse IntentClassification",
     value |-> NoClassification] }
  \cup
  { [kind |-> "parsed", error |-> "",
     value |-> IntentClassification(i, c, e, Reasoning("", "model reasoning"))] :
      i \in Intents \cup {"billing_question"},
      c \in {10, 50, 95, 150},
      e \in {EmptyEntities, ExtractedEntities(<<"John">>, <<"Acme">>)} }

\* lines 57-62: the classification returned for a message with attachments
AttachmentClassification ==
  IntentClassification("knowledge_qa", 90, EmptyEntities,
    Reasoning("Message contains file attachments - routing for ingestion", ""))

Fallback_Reraise(e) == Raised(e)

\* lines 77-84: except Exception as e
Fallback(e) ==
  Returned(IntentClassification("unknown", 10, EmptyEntities,
                                Reasoning("Classification failed: ", e)))

ModelCalls_Always(req) == 1

\* calls of self.llm.invoke made by one classify(req): line 74 is reached
\* only past the return of line 57
ModelCalls(req) == IF req.has_attachments THEN 0 ELSE 1

\* lines 56-84: what classify(req) delivers when the model call does `o`
ClassifyResult(req, o) ==
  IF req.has_attachments
    THEN Returned(AttachmentClassification)
    ELSE IF o.kind = "parsed" THEN Returned(o.value) ELSE Fallback(o.error)

\* classify has not been called
ClassifierIdle ==
  /\ cl_pc = "idle"
  /\ cl_request = NoRequest
  /\ cl_calls = 0
  /\ cl_outcome = NoOutcome
  /\ cl_result = NotDelivered

\* classify_intent(message, has_attachments, context) is called
ClassifyCall ==
  /\ cl_pc = "idle"
  /\ \E req \in ClassifyRequests : cl_request' = req
  /\ cl_pc' = "called"
  /\ UNCHANGED <<cl_calls, cl_outcome, cl_result>>
  /\ UNCHANGED outside_classifier

\* IntentClassifier.classify, lines 43-84
Classify ==
  /\ cl_pc = "called"
  /\ \E o \in ModelOutcomes :
       /\ cl_outcome' = (IF ModelCalls(cl_request) = 0 THEN NoOutcome ELSE o)
       /\ cl_result' = ClassifyResult(cl_request, o)
       /\ cl_calls' = cl_calls + ModelCalls(cl_request)
  /\ cl_pc' = "returned"
  /\ UNCHANGED cl_request
  /\ UNCHANGED outside_classifier

(***************************************************************************)
(* handle_errors                                                           *)
(***************************************************************************)
\* the classes of the taxonomy (lines 14-39): CopilotError and its subclasses
CopilotClasses ==
  {"CopilotError", "AgentError", "IntegrationError", "ValidationError",
   "ConfigurationError"}

\* issubclass(cls, base) for the classes that occur
IsSubclass(cls, base) ==
  \/ cls = base
  \/ base = "Exception"
  \/ (base = "CopilotError" /\ cls \in CopilotClasses)

\* the classes given as error_type
ErrorTypes ==
  {"CopilotError", "IntegrationError", "ValidationError", "ValueError", "Exception"}

\* what the decorated function may do: return, or raise one of these
RaisedByFunction ==
  { CopilotErrorObj("CopilotError", "GENERAL_ERROR", 0),
    CopilotErrorObj("AgentError", "AGENT_FAILED", 0),
    CopilotErrorObj("IntegrationError", "SERVICE_CALL_FAILED", 0),
    CopilotErrorObj("ValidationError", "VALIDATION_ERROR", 0),
    CopilotErrorObj("ValueError", "none", 0),
    CopilotErrorObj("KeyError", "none", 0),
    CopilotErrorObj("ConnectionError", "none", 0) }

\* lines 88-96: CopilotError(message=..., error_code="UNEXPECTED_ERROR", ...)
UnexpectedError == CopilotErrorObj("CopilotError", "UNEXPECTED_ERROR", 0)

\* lines 58-64: logger.error(..., extra={..., "args": ...}); a logger that
\* emits the record refuses the key "args" of `extra`, which is an attribute
\* of every LogRecord, with KeyError
LogRecordKeyError == CopilotErrorObj("KeyError", "none", 0)

\* the default_response returned in place of an error
DefaultResponse ==
  [kind |-> "default_response", code |-> "none", raised_at |-> 0, attempts |-> 0]

\* lines 52-99: what the wrapper delivers when func did `out`
HandleErrors(error_type, default_response, logging, out) ==
  IF ~IsError(out) THEN out
  ELSE IF IsSubclass(out.kind, error_type)
    THEN IF logging THEN LogRecordKeyError
         ELSE IF default_response # "None" THEN DefaultResponse
         ELSE out
  ELSE IF default_response # "None" THEN DefaultResponse
  ELSE UnexpectedError

\* handle_errors is not in use
HandlerUnused ==
  /\ h_error_type = "CopilotError"
  /\ h_default = "None"
  /\ h_logging = TRUE
  /\ h_pc = "idle"
  /\ h_raised = NoError
  /\ h_result = NoError

\* @handle_errors(error_type, default_response) decorates a function
HandlerInit ==
  /\ h_error_type \in ErrorTypes
  /\ h_default \in {"None", "fallback"}
  /\ h_logging \in BOOLEAN
  /\ h_pc = "idle"
  /\ h_raised = NoError
  /\ h_result = NoError

\* the decorated function is called (wrapper, lines 52-99)
HandledCall ==
  /\ h_pc = "idle"
  /\ \E out \in {Ok} \cup RaisedByFunction :
       /\ h_raised' = out
       /\ h_result' = HandleErrors(h_error_type, h_default, h_logging, out)
  /\ h_pc' = "done"
  /\ UNCHANGED <<h_error_type, h_default, h_logging>>
  /\ UNCHANGED outside_handler

\* no thread is inside a shared breaker
ThreadsIdle ==
  /\ t_pc = <<>>
  /\ t_read = <<>>

\* no concurrent requests are being served
RunsIdle == runs = <<>>

(***************************************************************************)
(* CircuitBreaker                                                          *)
(***************************************************************************)
TimeoutElapsed_Inclusive(t, lft, rt) == t - lft >= rt

\* line 332: datetime.now().timestamp() - self.last_failure_time > self.reset_timeout
TimeoutElapsed(t, lft, rt) == t - lft > rt

ThresholdReached_Strict(fc, thr) == fc > thr

\* line 351: self.failure_count >= self.failure_threshold
ThresholdReached(fc, thr) == fc >= thr

CountFailure_Forgotten(fc) == fc

\* line 348: self.failure_count += 1
CountFailure(fc) == fc + 1

StateAfterSuccess_Stay(st) == st

\* lines 343-344: a success closes a HALF_OPEN breaker
StateAfterSuccess(st) == IF st = "HALF_OPEN" THEN "CLOSED" ELSE st

CountAfterSuccess_Keep(st, fc) == fc

\* lines 343-345: a success in HALF_OPEN resets the count, no other success does
CountAfterSuccess(st, fc) == IF st = "HALF_OPEN" THEN 0 ELSE fc

\* lines 335-338: the error raised while OPEN
CircuitOpenError ==
  [kind |-> "IntegrationError", code |-> "CIRCUIT_BREAKER_OPEN",
   raised_at |-> 0, attempts |-> 0]

\* lines 354-358: the error raised when the wrapped call failed
ServiceCallFailed ==
  [kind |-> "IntegrationError", code |-> "SERVICE_CALL_FAILED",
   raised_at |-> 0, attempts |-> 0]

NoEntry == [st |-> "none", t0 |-> 0]

\* one completed call: what it delivered, the breaker state in which func was
\* invoked ("OPEN": it was not invoked), the clock at entry, the breaker's
\* fields when the call returned, and how often the operation ran and failed
HistEntry(out, st, t0, post, fc, lft, inv, nf) ==
  [out |-> out, st |-> st, t0 |-> t0, post |-> post, fc |-> fc, lft |-> lft,
   inv |-> inv, nfail |-> nf]

\* CircuitBreaker.__init__
BreakerInitOver(thresholds, timeouts) ==
  /\ failure_threshold \in thresholds
  /\ reset_timeout \in timeouts
  /\ failure_count = 0
  /\ last_failure_time = NoTime
  /\ state = "CLOSED"
  /\ now = 0
  /\ b_pc = "idle"
  /\ b_entry = NoEntry
  /\ hist = <<>>

BreakerInit == BreakerInitOver(1..MaxThreshold, 1..MaxResetTimeout)

\* time passes
TickUpTo(limit) ==
  /\ now < limit
  /\ now' = now + 1
  /\ UNCHANGED <<failure_threshold, reset_timeout, failure_count,
                 last_failure_time, state, b_pc, b_entry, hist>>
  /\ UNCHANGED rvars
  /\ UNCHANGED outside_resilience

Tick == TickUpTo(MaxTime)

\* CircuitBreaker.call, lines 331-338: the check made before func is invoked
CallEnterUpTo(budget) ==
  /\ b_pc = "idle"
  /\ Len(hist) < budget
  /\ IF state = "OPEN"
       THEN IF TimeoutElapsed(now, last_failure_time, reset_timeout)
              THEN /\ state' = "HALF_OPEN"
                   /\ b_pc' = "in_func"
                   /\ b_entry' = [st |-> "HALF_OPEN", t0 |-> now]
                   /\ hist' = hist
              ELSE /\ hist' = Append(hist,
                        HistEntry(CircuitOpenError, "OPEN", now, state,
                                  failure_count, last_failure_time, 0, 0))
                   /\ UNCHANGED <<state, b_pc, b_entry>>
       ELSE /\ b_pc' = "in_func"
            /\ b_entry' = [st |-> state, t0 |-> now]
            /\ UNCHANGED <<state, hist>>
  /\ UNCHANGED <<failure_threshold, reset_timeout, failure_count,
                 last_failure_time, now>>
  /\ UNCHANGED rvars
  /\ UNCHANGED outside_resilience

CallEnter == CallEnterUpTo(MaxCalls)

\* lines 341-346: func returned
CallSucceeds(inv, nf) ==
  /\ b_pc = "in_func"
  /\ LET st2 == StateAfterSuccess(state)
         fc2 == CountAfterSuccess(state, failure_count)
     IN /\ state' = st2
        /\ failure_count' = fc2
        /\ hist' = Append(hist, HistEntry(Ok, b_entry.st, b_entry.t0, st2, fc2,
                                          last_failure_time, inv, nf))
  /\ b_pc' = "idle"
  /\ b_entry' = NoEntry
  /\ UNCHANGED <<failure_threshold, reset_timeout, last_failure_time, now>>
  /\ UNCHANGED outside_resilience

\* lines 347-358: func raised
CallFails(inv, nf) ==
  /\ b_pc = "in_func"
  /\ LET fc2 == CountFailure(failure_count)
         st2 == IF ThresholdReached(fc2, failure_threshold) THEN "OPEN" ELSE state
     IN /\ failure_count' = fc2
        /\ last_failure_time' = now
        /\ state' = st2
        /\ hist' = Append(hist, HistEntry(ServiceCallFailed, b_entry.st,
                                          b_entry.t0, st2, fc2, now, inv, nf))
  /\ b_pc' = "idle"
  /\ b_entry' = NoEntry
  /\ UNCHANGED <<failure_threshold, reset_timeout, now>>
  /\ UNCHANGED outside_resilience

\* a plain wrapped function returns
PlainCallReturns ==
  /\ CallSucceeds(1, 0)
  /\ UNCHANGED rvars

\* a plain wrapped function raises
PlainCallRaises ==
  /\ CallFails(1, 1)
  /\ UNCHANGED rvars

\* the retry wrapper is not in use
RetryUnused ==
  /\ max_retries = 0
  /\ delay = 0
  /\ backoff_factor = 0
  /\ r_pc = "idle"
  /\ attempt = 0
  /\ current_delay = 0
  /\ last_exception = NoError
  /\ logger_bound = FALSE
  /\ outcomes = <<>>
  /\ sleeps = <<>>
  /\ r_result = NoError

InitBreaker ==
  BreakerInit /\ RetryUnused /\ GraphIdle /\ ThreadsIdle /\ RunsIdle /\ ClassifierIdle /\ HandlerUnused

NextBreaker == Tick \/ CallEnter \/ PlainCallReturns \/ PlainCallRaises

SpecBreaker == InitBreaker /\ [][NextBreaker]_vars

(***************************************************************************)
(* One CircuitBreaker called from several threads.  The module-level       *)
(* breakers (lines 361-363) are shared by every caller in the process and  *)
(* CircuitBreaker.call takes no lock, so the statements of two calls       *)
(* interleave; `self.failure_count += 1` is a load followed by a store.    *)
(* Each thread makes one call.                                             *)
(***************************************************************************)
Threads == 1..MaxThreads

\* the breaker fields a thread step leaves alone
breaker_bookkeeping == <<failure_threshold, reset_timeout, now, b_pc, b_entry, hist>>

ThreadsInit ==
  /\ t_pc = [t \in Threads |-> "start"]
  /\ t_read = [t \in Threads |-> 0]

\* lines 331-338: the OPEN check
ThreadEnter(t) ==
  /\ t_pc[t] = "start"
  /\ IF state = "OPEN"
       THEN IF TimeoutElapsed(now, last_failure_time, reset_timeout)
              THEN /\ state' = "HALF_OPEN"
                   /\ t_pc' = [t_pc EXCEPT ![t] = "in_func"]
              ELSE /\ state' = state
                   /\ t_pc' = [t_pc EXCEPT ![t] = "rejected"]
       ELSE /\ state' = state
            /\ t_pc' = [t_pc EXCEPT ![t] = "in_func"]
  /\ UNCHANGED <<failure_count, last_failure_time, t_read>>
  /\ UNCHANGED breaker_bookkeeping
  /\ UNCHANGED outside_threads

\* lines 341-346: func returned
ThreadFuncReturns(t) ==
  /\ t_pc[t] = "in_func"
  /\ state' = StateAfterSuccess(state)
  /\ failure_count' = CountAfterSuccess(state, failure_count)
  /\ t_pc' = [t_pc EXCEPT ![t] = "returned"]
  /\ UNCHANGED <<last_failure_time, t_read>>
  /\ UNCHANGED breaker_bookkeeping
  /\ UNCHANGED outside_threads

\* line 347: func raised, the except block is entered
ThreadFuncRaises(t) ==
  /\ t_pc[t] = "in_func"
  /\ t_pc' = [t_pc EXCEPT ![t] = "load"]
  /\ UNCHANGED <<state, failure_count, last_failure_time, t_read>>
  /\ UNCHANGED breaker_bookkeeping
  /\ UNCHANGED outside_threads

\* line 348, first half: the value of self.failure_count is loaded
ThreadLoadCount(t) ==
  /\ t_pc[t] = "load"
  /\ t_read' = [t_read EXCEPT ![t] = failure_count]
  /\ t_pc' = [t_pc EXCEPT ![t] = "store"]
  /\ UNCHANGED <<state, failure_count, last_failure_time>>
  /\ UNCHANGED breaker_bookkeeping
  /\ UNCHANGED outside_threads

\* line 348, second half: the loaded value plus one is stored
ThreadStoreCount(t) ==
  /\ t_pc[t] = "store"
  /\ failure_count' = CountFailure(t_read[t])
  /\ t_pc' = [t_pc EXCEPT ![t] = "stamp"]
  /\ UNCHANGED <<state, last_failure_time, t_read>>
  /\ UNCHANGED breaker_bookkeeping
  /\ UNCHANGED outside_threads

\* line 349: self.last_failure_time = datetime.now().timestamp()
ThreadStamp(t) ==
  /\ t_pc[t] = "stamp"
  /\ last_failure_time' = now
  /\ t_pc' = [t_pc EXCEPT ![t] = "check"]
  /\ UNCHANGED <<state, failure_count, t_read>>
  /\ UNCHANGED breaker_bookkeeping
  /\ UNCHANGED outside_threads

\* lines 351-358: the threshold check, then SERVICE_CALL_FAILED is raised
ThreadCheck(t) ==
  /\ t_pc[t] = "check"
  /\ state' = IF ThresholdReached(failure_count, failure_threshold)
                THEN "OPEN" ELSE state
  /\ t_pc' = [t_pc EXCEPT ![t] = "failed"]
  /\ UNCHANGED <<failure_count, last_failure_time, t_read>>
  /\ UNCHANGED breaker_bookkeeping
  /\ UNCHANGED outside_threads

InitThreads ==
  /\ BreakerInitOver(1..MaxThreads, {1})
  /\ ThreadsInit
  /\ RetryUnused /\ GraphIdle /\ RunsIdle /\ ClassifierIdle /\ HandlerUnused

NextThreads ==
  \E t \in Threads :
    \/ ThreadEnter(t)
    \/ ThreadFuncReturns(t)
    \/ ThreadFuncRaises(t)
    \/ ThreadLoadCount(t)
    \/ ThreadStoreCount(t)
    \/ ThreadStamp(t)
    \/ ThreadCheck(t)

SpecThreads == InitThreads /\ [][NextThreads]_vars

(***************************************************************************)
(* retry_on_error                                                          *)
(***************************************************************************)
RECURSIVE Pow(_, _)
Pow(b, n) == IF n = 0 THEN 1 ELSE b * Pow(b, n - 1)

\* number of invocations of func made by the running wrapper call
Invocations == Len(outcomes)

\* number of those invocations that raised
NFailed == Cardinality({i \in 1..Len(outcomes) : IsError(outcomes[i])})

\* line 132 reads the local `logger`, which only line 127 assigns
UnboundLocalError ==
  [kind |-> "UnboundLocalError", code |-> "none", raised_at |-> 0, attempts |-> 0]

IsRetried_Any(e) == TRUE

\* line 124: except (IntegrationError, ConnectionError, TimeoutError)
IsRetried(e) == IsTransient(e)

\* line 126: if attempt < max_retries
MayRetry(a, mr) == a < mr

NextDelay_Additive(d, bf) == d + bf

\* line 130: current_delay *= backoff_factor
NextDelay(d, bf) == d * bf

\* lines 131-133: logger.error(...) then a bare `raise` of the caught error
Exhausted(e, bound) == IF bound THEN e ELSE UnboundLocalError

\* the decorator arguments
RetryParams ==
  /\ max_retries \in 0..MaxRetries
  /\ delay \in 1..MaxDelay
  /\ backoff_factor \in 1..MaxBackoff

RetryIdle ==
  /\ r_pc = "idle"
  /\ attempt = 0
  /\ current_delay = 0
  /\ last_exception = NoError
  /\ logger_bound = FALSE
  /\ outcomes = <<>>
  /\ sleeps = <<>>
  /\ r_result = NoError

\* wrapper, lines 116-119: the call starts
RetryCall ==
  /\ r_pc = "idle"
  /\ r_pc' = "try"
  /\ attempt' = 0
  /\ current_delay' = delay
  /\ last_exception' = NoError
  /\ logger_bound' = FALSE
  /\ outcomes' = <<>>
  /\ sleeps' = <<>>
  /\ r_result' = NoError
  /\ UNCHANGED <<max_retries, delay, backoff_factor>>

\* wrapper, lines 121-136: one iteration of the loop, func doing `out`
RetryIteration(out) ==
  /\ r_pc = "try"
  /\ outcomes' = Append(outcomes, out)
  /\ IF ~IsError(out)
       THEN \* line 123: return func(...)
            /\ r_result' = out
            /\ r_pc' = "done"
            /\ UNCHANGED <<attempt, current_delay, last_exception,
                           logger_bound, sleeps>>
       ELSE IF IsRetried(out)
         THEN /\ last_exception' = out
              /\ IF MayRetry(attempt, max_retries)
                   THEN \* lines 127-130
                        /\ logger_bound' = TRUE
                        /\ sleeps' = Append(sleeps, current_delay)
                        /\ current_delay' = NextDelay(current_delay, backoff_factor)
                        /\ attempt' = attempt + 1
                        /\ UNCHANGED <<r_pc, r_result>>
                   ELSE \* lines 132-133
                        /\ r_result' = Exhausted(out, logger_bound)
                        /\ r_pc' = "done"
                        /\ UNCHANGED <<attempt, current_delay, logger_bound, sleeps>>
         ELSE \* lines 134-136
              /\ r_result' = out
              /\ r_pc' = "done"
              /\ UNCHANGED <<attempt, current_delay, last_exception,
                             logger_bound, sleeps>>
  /\ UNCHANGED <<max_retries, delay, backoff_factor>>

\* the wrapped operation returns
AttemptReturns ==
  /\ RetryIteration(Ok)
  /\ UNCHANGED bvars
  /\ UNCHANGED outside_resilience

\* the wrapped operation raises
AttemptRaises ==
  /\ \E e \in OperationErrors(attempt + 1) : RetryIteration(e)
  /\ UNCHANGED bvars
  /\ UNCHANGED outside_resilience

StandaloneRetryCall ==
  /\ RetryCall
  /\ UNCHANGED bvars
  /\ UNCHANGED outside_resilience

\* no circuit breaker is involved
BreakerUnused ==
  /\ failure_threshold = 1
  /\ reset_timeout = 1
  /\ failure_count = 0
  /\ last_failure_time = NoTime
  /\ state = "CLOSED"
  /\ now = 0
  /\ b_pc = "idle"
  /\ b_entry = NoEntry
  /\ hist = <<>>

InitRetry ==
  /\ RetryParams /\ RetryIdle /\ BreakerUnused /\ GraphIdle
  /\ ThreadsIdle /\ RunsIdle /\ ClassifierIdle /\ HandlerUnused

NextRetry == StandaloneRetryCall \/ AttemptReturns \/ AttemptRaises

SpecRetry == InitRetry /\ [][NextRetry]_vars

(***************************************************************************)
(* breaker.call(retry_on_error(max_retries, delay, backoff_factor)(op))    *)
(***************************************************************************)
\* errors the operation raises in the composed runs: one that is retried,
\* one that is not
ComposeErrors(at) ==
  { CopilotErrorObj("TimeoutError", "none", at),
    CopilotErrorObj("ValidationError", "VALIDATION_ERROR", at) }

\* CircuitBreaker.call line 341 invokes func, which is the retry wrapper
ComposeFuncStarts ==
  /\ b_pc = "in_func"
  /\ RetryCall
  /\ UNCHANGED bvars
  /\ UNCHANGED outside_resilience

ComposeAttemptReturns ==
  /\ b_pc = "in_func"
  /\ RetryIteration(Ok)
  /\ UNCHANGED bvars
  /\ UNCHANGED outside_resilience

ComposeAttemptRaises ==
  /\ b_pc = "in_func"
  /\ \E e \in ComposeErrors(attempt + 1) : RetryIteration(e)
  /\ UNCHANGED bvars
  /\ UNCHANGED outside_resilience

\* the wrapper is left; its locals are gone
RetryLeft ==
  /\ r_pc' = "idle"
  /\ attempt' = 0
  /\ current_delay' = 0
  /\ last_exception' = NoError
  /\ logger_bound' = FALSE
  /\ outcomes' = <<>>
  /\ sleeps' = <<>>
  /\ r_result' = NoError
  /\ UNCHANGED <<max_retries, delay, backoff_factor>>

\* the wrapper returned a value to CircuitBreaker.call (lines 341-346)
ComposeFuncReturns ==
  /\ r_pc = "done"
  /\ ~IsError(r_result)
  /\ CallSucceeds(Invocations, NFailed)
  /\ RetryLeft

\* the wrapper raised into CircuitBreaker.call (lines 347-358)
ComposeFuncRaises ==
  /\ r_pc = "done"
  /\ IsError(r_result)
  /\ CallFails(Invocations, NFailed)
  /\ RetryLeft

ComposeCallEnter == CallEnterUpTo(MaxComposeCalls)

\* retry_on_error with its default delay and backoff_factor (line 104)
ComposeRetryParams ==
  /\ max_retries \in 0..MaxRetries
  /\ delay = 1
  /\ backoff_factor = 2

ComposeTick == TickUpTo(MaxComposeTime)

ComposeBreakerInit == BreakerInitOver(1..MaxComposeThreshold, {1})

InitCompose ==
  /\ ComposeBreakerInit /\ ComposeRetryParams /\ RetryIdle /\ GraphIdle
  /\ ThreadsIdle /\ RunsIdle /\ ClassifierIdle /\ HandlerUnused

NextCompose ==
  \/ ComposeTick
  \/ ComposeCallEnter
  \/ ComposeFuncStarts
  \/ ComposeAttemptReturns
  \/ ComposeAttemptRaises
  \/ ComposeFuncReturns
  \/ ComposeFuncRaises

SpecCompose == InitCompose /\ [][NextCompose]_vars


(***************************************************************************)
(* The agents' graphs.  A node is one action: its external calls succeed,  *)
(* raise, or raise an exception whose str() is empty.                      *)
(***************************************************************************)
ExtOutcomes == {"ok", "raise", "raise_empty"}

\* str(e) of the exception raised by collaborator svc
ErrMsg(svc, o) == IF o = "raise_empty" THEN "" ELSE svc

\* one call to a collaborator; every call site calls the client object itself
\* (self.embeddings.embed_query, self.collection.query, self.llm.invoke, ...);
\* results: the number of documents a query of the collection returned
ExtCall(svc, o) ==
  [svc |-> svc, via |-> "direct", ok |-> (o = "ok"), step |-> 0, results |-> 0]

\* the documents a query of the collection may return
DocSeqs == UNION {[1..n -> {"short", "long"}] : n \in 0..NResults}

\* len(d.page_content) > 100
Long(d) == d = "long"

MinOf(a, b) == IF a < b THEN a ELSE b

\* line 259, in hundredths: min(0.9, len([d for d in docs if len(...) > 100]) * 0.2)
Confidence(docs) ==
  MinOf(90, Cardinality({i \in 1..Len(docs) : Long(docs[i])}) * 20)

\* lines 250-256: one citation per document
Citations(docs) == [i \in 1..Len(docs) |-> i]

\* _route_after_ingest (lines 367-371)
RouteAfterIngest(st) == IF st.query.truthy THEN "retrieve_node" ELSE "END"

RouteAfterReflection_Retry(st) ==
  IF FollowUpTruthy(st.follow_up_info)
    THEN "schedule_parse_node"
    ELSE IF st.confidence < ReflectBelow THEN "retrieve_node" ELSE "END"

\* _route_after_reflection (lines 373-377)
RouteAfterReflection(st) ==
  IF FollowUpTruthy(st.follow_up_info) THEN "schedule_parse_node" ELSE "END"

\* a node of the knowledge graph ran: LangGraph stores the returned state and
\* follows the node's edge
KStep(node, st, calls, next) ==
  /\ g_node = node
  /\ kstate' = st
  /\ g_trace' = Append(g_trace, node)
  /\ ext_calls' = ext_calls \o [i \in 1..Len(calls) |->
                                  [calls[i] EXCEPT !.step = Len(g_trace) + 1]]
  /\ g_err_at' = IF g_err_at = 0 /\ st.error # kstate.error
                   THEN Len(g_trace) + 1 ELSE g_err_at
  /\ g_node' = next
  /\ UNCHANGED <<g_api, dstate, g_result>>
  /\ UNCHANGED outside_graph

\* KnowledgeAgent._ingest_document (lines 128-180)
IngestNode ==
  IF kstate.drive_file_id \in {"None", ""}
    THEN LET st == [kstate EXCEPT !.error = "No drive file ID provided"]
         IN KStep("ingest_node", st, <<>>, RouteAfterIngest(st))
    ELSE \E o1, o2 \in ExtOutcomes :
           LET st == IF o1 # "ok"
                       THEN [kstate EXCEPT !.error = ErrMsg("embed_documents", o1)]
                     ELSE IF o2 # "ok"
                       THEN [kstate EXCEPT !.error = ErrMsg("collection.add", o2)]
                     ELSE [kstate EXCEPT !.chunks = 1]
               calls == IF o1 # "ok"
                          THEN <<ExtCall("embed_documents", o1)>>
                          ELSE <<ExtCall("embed_documents", o1),
                                 ExtCall("collection.add", o2)>>
           IN /\ (o1 # "ok" => o2 = "ok")
              /\ KStep("ingest_node", st, calls, RouteAfterIngest(st))

\* KnowledgeAgent._retrieve_documents (lines 182-214)
RetrieveNode ==
  IF ~kstate.query.truthy
    THEN KStep("retrieve_node", [kstate EXCEPT !.error = "No query provided"],
               <<>>, "answer_node")
    ELSE \E o1, o2 \in ExtOutcomes : \E docs \in DocSeqs :
           LET st == IF o1 # "ok"
                       THEN [kstate EXCEPT !.error = ErrMsg("embed_query", o1)]
                     ELSE IF o2 # "ok"
                       THEN [kstate EXCEPT !.error = ErrMsg("collection.query", o2)]
                     ELSE [kstate EXCEPT !.retrieved_docs = docs]
               calls == IF o1 # "ok"
                          THEN <<ExtCall("embed_query", o1)>>
                          ELSE <<ExtCall("embed_query", o1),
                                 [ExtCall("collection.query", o2)
                                    EXCEPT !.results = Len(docs)]>>
           IN /\ (o1 # "ok" => o2 = "ok")
              /\ (o1 # "ok" \/ o2 # "ok" => docs = <<>>)
              /\ KStep("retrieve_node", st, calls, "answer_node")

NoInformation_Certain(st) ==
  [st EXCEPT !.answer = Answer("noinfo", 0),
             !.confidence = 90,
             !.citations = <<>>]

\* lines 222-226: nothing was retrieved, the fixed answer is written
NoInformation(st) ==
  [st EXCEPT !.answer = Answer("noinfo", 0),
             !.confidence = NoInfoConfidence,
             !.citations = <<>>]

\* KnowledgeAgent._generate_answer (lines 216-269)
AnswerNode ==
  IF kstate.retrieved_docs = <<>>
    THEN KStep("answer_node", NoInformation(kstate), <<>>, "reflect_node")
    ELSE \E o \in ExtOutcomes :
           LET st == IF o # "ok"
                       THEN [kstate EXCEPT !.error = ErrMsg("llm.invoke", o)]
                       ELSE [kstate EXCEPT
                               !.answer = Answer("llm", 0),
                               !.citations = Citations(kstate.retrieved_docs),
                               !.confidence = Confidence(kstate.retrieved_docs)]
           IN KStep("answer_node", st, <<ExtCall("llm.invoke", o)>>, "reflect_node")

\* line 308: the clarification note is appended to the answer
WithClarification(a) == [a EXCEPT !.notes = @ + 1]

\* lines 286-289: has_scheduling stores what _extract_time_info finds
DetectScheduling(st) ==
  IF st.query.kw
    THEN [st EXCEPT !.follow_up_info = Extracted(st.query.keys)]
    ELSE st

\* lines 273-313: the state _self_reflect returns when its quality-check
\* request (made only below ReflectBelow) does `o`; when the request raises,
\* the except of line 310 is entered before line 307 is reached
ReflectResult(st, o) ==
  LET st1 == DetectScheduling(st)
  IN IF st1.confidence < ReflectBelow /\ o = "ok" /\ st1.confidence < ClarifyBelow
       THEN [st1 EXCEPT !.answer = WithClarification(@)]
       ELSE st1

\* KnowledgeAgent._self_reflect (lines 271-313)
ReflectNode ==
  IF kstate.confidence < ReflectBelow
    THEN \E o \in ExtOutcomes :
           LET st2 == ReflectResult(kstate, o)
           IN KStep("reflect_node", st2, <<ExtCall("llm.invoke", o)>>,
                    RouteAfterReflection(st2))
    ELSE LET st2 == ReflectResult(kstate, "ok")
         IN KStep("reflect_node", st2, <<>>, RouteAfterReflection(st2))

\* _parse_datetime (lines 357-365): tomorrow at 10:00, whatever the text
ParseDatetime == [day |-> 1, hour |-> 10]

\* KnowledgeAgent._parse_scheduling (lines 315-336) applied to state st
ParseScheduling(st) ==
  IF st.query.keys # {}
    THEN [st EXCEPT !.follow_up_info = Schedule(ParseDatetime.day, ParseDatetime.hour, 1)]
    ELSE st

ScheduleParseNode ==
  /\ g_node = "schedule_parse_node"
  /\ KStep("schedule_parse_node", ParseScheduling(kstate), <<>>, "END")

\* KnowledgeAgent.ask (lines 410-428): build the state, invoke the graph
AskCall ==
  /\ g_node = "idle"
  /\ \E q \in Queries :
       kstate' = InitialKState(q, "None")
  /\ g_api' = "ask"
  /\ g_node' = "ingest_node"
  /\ UNCHANGED <<dstate, g_trace, g_err_at, ext_calls, g_result>>
  /\ UNCHANGED outside_graph

\* KnowledgeAgent.ask (lines 430-438): map the final state to the result
AskReturn ==
  /\ g_api = "ask"
  /\ g_node = "END"
  /\ g_result' = IF ErrorTruthy(kstate.error)
                   THEN [NoResult EXCEPT !.kind = "Exception",
                                         !.message = kstate.error]
                   ELSE [NoResult EXCEPT !.kind = "KnowledgeAnswer",
                                         !.answer = kstate.answer,
                                         !.citations = kstate.citations,
                                         !.confidence = kstate.confidence]
  /\ g_node' = "returned"
  /\ UNCHANGED <<g_api, kstate, dstate, g_trace, g_err_at, ext_calls>>
  /\ UNCHANGED outside_graph

\* the keys of _extract_time_info that name a day or a time
DayTimeKeys == {"time", "day", "date"}

\* KnowledgeAgent.followup_parse (lines 440-471): _parse_scheduling is run on
\* a fresh state, outside the graph; no follow_up_info raises
FollowupParse ==
  /\ g_node = "idle"
  /\ \E q \in Queries :
       LET result == ParseScheduling(InitialKState(q, "None"))
       IN /\ kstate' = result
          /\ g_result' =
               IF ~FollowUpTruthy(result.follow_up_info)
                 THEN [NoResult EXCEPT
                         !.kind = "Exception",
                         !.message = "Could not parse scheduling information"]
                 ELSE [NoResult EXCEPT !.kind = "FollowUpSchedule",
                                       !.schedule = result.follow_up_info]
  /\ g_api' = "followup_parse"
  /\ g_node' = "returned"
  /\ UNCHANGED <<dstate, g_trace, g_err_at, ext_calls>>
  /\ UNCHANGED outside_graph

\* KnowledgeAgent.ingest (lines 381-399)
IngestCall ==
  /\ g_node = "idle"
  /\ \E file \in {"", "file-1"} :
       kstate' = InitialKState(Q_empty, file)
  /\ g_api' = "ingest"
  /\ g_node' = "ingest_node"
  /\ UNCHANGED <<dstate, g_trace, g_err_at, ext_calls, g_result>>
  /\ UNCHANGED outside_graph

\* KnowledgeAgent.ingest (lines 401-408)
IngestReturn ==
  /\ g_api = "ingest"
  /\ g_node = "END"
  /\ g_result' = IF ErrorTruthy(kstate.error)
                   THEN [NoResult EXCEPT !.kind = "Exception",
                                         !.message = kstate.error]
                   ELSE [NoResult EXCEPT !.kind = "IngestionResult"]
  /\ g_node' = "returned"
  /\ UNCHANGED <<g_api, kstate, dstate, g_trace, g_err_at, ext_calls>>
  /\ UNCHANGED outside_graph

\* ---- DealflowAgent ----
\* the lead texts and what _manual_parse_lead (lines 335-351) makes of them
RawTexts == {"", "hello", "Call me", "John Smith from Acme wants a PoC, budget 10k"}

ManualParseLead(raw) ==
  CASE raw = "John Smith from Acme wants a PoC, budget 10k" -> "full"
    [] raw = "Call me" -> "partial"
    [] OTHER -> "empty"

\* what json.loads makes of the model's reply: a dict with name, company and
\* intent, a dict without them, {}, a truthy or falsy value that is no dict,
\* or "text" when the reply is no JSON
LeadReplies == {"full", "partial", "empty", "nondict", "nondict_falsy", "text"}

IsDict(lead) == lead \in {"full", "partial", "empty"}

\* Python truthiness of parsed_lead
LeadTruthy(lead) == lead \in {"full", "partial", "nondict"}

DStep(node, st, calls, next) ==
  /\ g_node = node
  /\ dstate' = st
  /\ g_trace' = Append(g_trace, node)
  /\ ext_calls' = ext_calls \o [i \in 1..Len(calls) |->
                                  [calls[i] EXCEPT !.step = Len(g_trace) + 1]]
  /\ g_err_at' = IF g_err_at = 0 /\ st.error # dstate.error
                   THEN Len(g_trace) + 1 ELSE g_err_at
  /\ g_node' = next
  /\ UNCHANGED <<g_api, kstate, g_result>>
  /\ UNCHANGED outside_graph

\* DealflowAgent._parse_lead (lines 100-135)
ParseLeadNode ==
  \E o \in ExtOutcomes : \E reply \in LeadReplies :
    LET parsed == IF reply = "text" THEN ManualParseLead(dstate.raw_text) ELSE reply
        st == IF o # "ok"
                THEN [dstate EXCEPT !.error = ErrMsg("llm.invoke", o)]
              ELSE IF IsDict(parsed)
                THEN [dstate EXCEPT !.parsed_lead = parsed]
              ELSE [dstate EXCEPT !.parsed_lead = parsed,
                                  !.error = "AttributeError"]
    IN /\ (o # "ok" => reply = "text")
       /\ DStep("parse_lead_node", st, <<ExtCall("llm.invoke", o)>>,
                "enrich_lead_node")

\* DealflowAgent._enrich_lead (lines 137-166)
EnrichLeadNode ==
  LET lead == dstate.parsed_lead
      st == IF ~LeadTruthy(lead)
              THEN dstate
            ELSE IF ~IsDict(lead)
              THEN [dstate EXCEPT !.error = "AttributeError"]
            ELSE [dstate EXCEPT !.enriched_lead = lead]
  IN /\ g_node = "enrich_lead_node"
     /\ DStep("enrich_lead_node", st, <<>>, "END")

\* a text given to nextstep_parse, described by what the code looks for in
\* it: the words "tomorrow" and "next week", the first match of the time
\* pattern (\d{1,2}):?(\d{2})?\s*(am|pm)? with its groups (minute -1 and ampm
\* "" when the group is absent), and the first meeting_type word
ScheduleText(id, tomorrow, next_week, matched, hour, minute, ampm, meeting_type) ==
  [id |-> id, tomorrow |-> tomorrow, next_week |-> next_week,
   matched |-> matched, hour |-> hour, minute |-> minute, ampm |-> ampm,
   meeting_type |-> meeting_type]

ScheduleTexts ==
  { ScheduleText("", FALSE, FALSE, FALSE, 0, -1, "", "None"),
    ScheduleText("Let's talk next week", FALSE, TRUE, FALSE, 0, -1, "", "None"),
    ScheduleText("Schedule demo next Wed at 11", FALSE, FALSE, TRUE, 11, -1, "", "demo"),
    ScheduleText("Call tomorrow at 3:30pm", TRUE, FALSE, TRUE, 3, 30, "pm", "call"),
    ScheduleText("Standup at 12am", FALSE, FALSE, TRUE, 12, -1, "am", "None"),
    ScheduleText("Review at 11:45 pm tomorrow", TRUE, FALSE, TRUE, 11, 45, "pm", "review"),
    ScheduleText("Demo for 50 people tomorrow", TRUE, FALSE, TRUE, 50, -1, "", "demo"),
    ScheduleText("Meeting at 13pm", FALSE, FALSE, TRUE, 13, -1, "pm", "meeting"),
    ScheduleText("Call about invoice 1075", FALSE, FALSE, TRUE, 10, 75, "", "call") }

MinutesPerDay == 24 * 60

\* datetime.now() as minutes into today: a morning and a late-evening clock
ClockReadings == {9 * 60 + 30, 23 * 60 + 30}

\* lines 393-396: the day added to today
DayOffset(text) ==
  IF text.tomorrow THEN 1 ELSE IF text.next_week THEN 7 ELSE 0

\* lines 401-407: hour and minute handed to base_time.replace
HourOf(text) ==
  IF text.ampm = "pm" /\ text.hour # 12 THEN text.hour + 12
  ELSE IF text.ampm = "am" /\ text.hour = 12 THEN 0
  ELSE text.hour

MinuteOf(text) == IF text.minute = -1 THEN 0 ELSE text.minute

\* DealflowAgent._parse_datetime_from_text (lines 388-411): the start in
\* minutes from the start of today; datetime.replace raises ValueError for an
\* hour above 23 or a minute above 59
ParseDatetimeFromText(text, clock) ==
  IF ~text.matched
    THEN [ok |-> TRUE, at |-> DayOffset(text) * MinutesPerDay + clock]
  ELSE IF HourOf(text) > 23 \/ MinuteOf(text) > 59
    THEN [ok |-> FALSE, at |-> 0]
  ELSE [ok |-> TRUE,
        at |-> DayOffset(text) * MinutesPerDay + HourOf(text) * 60 + MinuteOf(text)]

\* lines 252-254: title = f"Business {meeting_type}"
MeetingTitle(text) ==
  IF text.meeting_type = "None" THEN "meeting" ELSE text.meeting_type

\* DealflowAgent._parse_schedule (lines 233-274) applied to state st
ParseSchedule(st, clock) ==
  LET start_time == ParseDatetimeFromText(st.raw_text, clock)
  IN IF ~start_time.ok
       THEN [st EXCEPT !.error = "ValueError"]
       ELSE [st EXCEPT !.schedule_info =
               ScheduleInfo("dict", MeetingTitle(st.raw_text), start_time.at,
                            start_time.at + 60)]

\* DealflowAgent.nextstep_parse (lines 461-482): _parse_schedule is run on a
\* fresh state, outside the graph
NextstepParse ==
  /\ g_node = "idle"
  /\ \E text \in ScheduleTexts : \E clock \in ClockReadings :
       LET result == ParseSchedule(InitialDState(text), clock)
       IN /\ dstate' = result
          /\ g_result' =
               IF ErrorTruthy(result.error)
                 THEN [NoResult EXCEPT !.kind = "Exception",
                                       !.message = result.error]
                 ELSE [NoResult EXCEPT !.kind = "NextStepSchedule",
                                       !.next_step = result.schedule_info]
  /\ g_api' = "nextstep_parse"
  /\ g_node' = "returned"
  /\ UNCHANGED <<kstate, g_trace, g_err_at, ext_calls>>
  /\ UNCHANGED outside_graph

\* the texts status_classify builds from label and reason_text (lines 488-490)
StatusTexts == {"Lost", "Lost - budget cut", "Won - signed yesterday"}

\* the categories of reason_categories in the order of the dict (lines 305-311)
ReasonCategories == <<"budget", "timeline", "competition", "internal", "technical">>

\* response.content.lower() as _classify_status reads it: whether it holds
\* "won", whether it holds "lost", and the categories one of whose keywords
\* it holds
StatusContents ==
  { [won |-> w, lost |-> l, cats |-> c] :
      w \in BOOLEAN, l \in BOOLEAN,
      c \in {{}, {"budget"}, {"technical"}, {"timeline", "technical"}} }

\* lines 296-301: "won" is looked for first
StatusLabel(content) ==
  IF content.won THEN "Won" ELSE IF content.lost THEN "Lost" ELSE "On hold"

\* lines 313-317: the first category, in dict order, with a keyword in content
ReasonCategory(content) ==
  LET hits == {i \in 1..Len(ReasonCategories) : ReasonCategories[i] \in content.cats}
  IN IF hits = {} THEN "other"
     ELSE ReasonCategories[CHOOSE i \in hits : \A j \in hits : i <= j]

\* DealflowAgent._classify_status (lines 276-333) applied to state st when
\* self.llm.invoke does `o` and, if it returns, replies with `content`
ClassifyStatus(st, o, content) ==
  IF o # "ok"
    THEN [st EXCEPT !.error = ErrMsg("llm.invoke", o)]
    ELSE [st EXCEPT !.status_info =
            StatusInfo(StatusLabel(content), ReasonCategory(content), st.raw_text)]

\* DealflowAgent.status_classify (lines 484-509): _classify_status is run on a
\* fresh state, outside the graph
StatusClassify ==
  /\ g_node = "idle"
  /\ \E raw \in StatusTexts : \E o \in ExtOutcomes : \E content \in StatusContents :
       LET result == ClassifyStatus(InitialDState(raw), o, content)
       IN /\ dstate' = result
          /\ ext_calls' = Append(ext_calls, ExtCall("llm.invoke", o))
          /\ g_result' =
               IF ErrorTruthy(result.error)
                 THEN [NoResult EXCEPT !.kind = "Exception",
                                       !.message = result.error]
               ELSE IF result.status_info = NoStatusInfo
                 THEN [NoResult EXCEPT !.kind = "TypeError"]
               ELSE [NoResult EXCEPT !.kind = "StatusClassification",
                                     !.status = result.status_info]
  /\ g_api' = "status_classify"
  /\ g_node' = "returned"
  /\ UNCHANGED <<kstate, g_trace, g_err_at>>
  /\ UNCHANGED outside_graph

\* DealflowAgent.newlead (lines 415-430)
NewLeadCall ==
  /\ g_node = "idle"
  /\ \E raw \in RawTexts :
       dstate' = InitialDState(raw)
  /\ g_api' = "newlead"
  /\ g_node' = "parse_lead_node"
  /\ UNCHANGED <<kstate, g_trace, g_err_at, ext_calls, g_result>>
  /\ UNCHANGED outside_graph

\* DealflowAgent.newlead (lines 432-436): Lead(**enriched) needs a dict with
\* name, company and intent
NewLeadReturn ==
  /\ g_api = "newlead"
  /\ g_node = "END"
  /\ g_result' = IF ErrorTruthy(dstate.error)
                   THEN [NoResult EXCEPT !.kind = "Exception",
                                         !.message = dstate.error]
                 ELSE IF dstate.enriched_lead = "None"
                   THEN [NoResult EXCEPT !.kind = "TypeError"]
                 ELSE IF dstate.enriched_lead = "full"
                   THEN [NoResult EXCEPT !.kind = "Lead"]
                 ELSE [NoResult EXCEPT !.kind = "ValidationError"]
  /\ g_node' = "returned"
  /\ UNCHANGED <<g_api, kstate, dstate, g_trace, g_err_at, ext_calls>>
  /\ UNCHANGED outside_graph

InitGraph ==
  /\ GraphIdle /\ BreakerUnused /\ RetryUnused
  /\ ThreadsIdle /\ RunsIdle /\ ClassifierIdle /\ HandlerUnused

NextGraph ==
  \/ AskCall
  \/ IngestCall
  \/ NewLeadCall
  \/ FollowupParse
  \/ StatusClassify
  \/ NextstepParse
  \/ IngestNode
  \/ RetrieveNode
  \/ AnswerNode
  \/ ReflectNode
  \/ ScheduleParseNode
  \/ ParseLeadNode
  \/ EnrichLeadNode
  \/ AskReturn
  \/ IngestReturn
  \/ NewLeadReturn

SpecGraph == InitGraph /\ [][NextGraph]_vars

(***************************************************************************)
(* Two or more requests served by the same agent instance.  What is        *)
(* followed here is where each value comes from: a field holds 0 (None,    *)
(* empty) or the number of the request whose text it was computed from.    *)
(* The agents write their attributes in __init__ only; ask and newlead     *)
(* build initial_state as a local and hand it to self.graph.invoke, and    *)
(* every node receives the state of its own invocation and returns it.     *)
(***************************************************************************)
Requests == 1..MaxRequests

\* the fields of KnowledgeState and DealflowState that the nodes write
PipelineState(request_id, query, raw_text) ==
  [request_id |-> request_id, query |-> query, raw_text |-> raw_text,
   retrieved_docs |-> 0, answer |-> 0, citations |-> 0, confidence |-> 0,
   parsed_lead |-> 0, enriched_lead |-> 0, error |-> 0]

StateFields ==
  {"request_id", "query", "raw_text", "retrieved_docs", "answer", "citations",
   "confidence", "parsed_lead", "enriched_lead", "error"}

\* what ask / newlead deliver: KnowledgeAnswer, Lead, or the raised Exception
RunResult(kind, answer, citations, confidence, lead, request_id, message) ==
  [kind |-> kind, answer |-> answer, citations |-> citations,
   confidence |-> confidence, lead |-> lead, request_id |-> request_id,
   message |-> message]

NoRunResult == RunResult("none", 0, 0, 0, 0, 0, 0)

ResultFields ==
  {"answer", "citations", "confidence", "lead", "request_id", "message"}

RunIdle ==
  [api |-> "none", node |-> "idle", st |-> PipelineState(0, 0, 0),
   result |-> NoRunResult]

\* the order of the nodes that ask and newlead run (the edges of _build_graph)
NextNode(node) ==
  CASE node = "ingest_node" -> "retrieve_node"
    [] node = "retrieve_node" -> "answer_node"
    [] node = "answer_node" -> "reflect_node"
    [] node = "reflect_node" -> "END"
    [] node = "parse_lead_node" -> "enrich_lead_node"
    [] node = "enrich_lead_node" -> "END"

\* the request whose text a node's output is computed from
InputOf(st) == IF st.query # 0 THEN st.query ELSE st.raw_text

\* the state a node returns: the state it was given, with the fields it
\* assigns; `ok` tells whether its external call returned
NodeResult(node, st, ok) ==
  LET v == InputOf(st)
  IN CASE node = "ingest_node" -> [st EXCEPT !.error = v]
       [] node = "retrieve_node" ->
            IF ok THEN [st EXCEPT !.retrieved_docs = v] ELSE [st EXCEPT !.error = v]
       [] node = "answer_node" ->
            IF ok THEN [st EXCEPT !.answer = v, !.citations = v, !.confidence = v]
                  ELSE [st EXCEPT !.error = v]
       [] node = "reflect_node" ->
            IF ok /\ st.answer # 0 THEN [st EXCEPT !.answer = v] ELSE st
       [] node = "parse_lead_node" ->
            IF ok THEN [st EXCEPT !.parsed_lead = v] ELSE [st EXCEPT !.error = v]
       [] node = "enrich_lead_node" ->
            IF st.parsed_lead = 0
              THEN [st EXCEPT !.error = v]
              ELSE [st EXCEPT !.enriched_lead = st.parsed_lead]

RunState_Shared(rs, r) == rs[1].st

\* the state handed to the next node of run r: the one its own
\* self.graph.invoke(initial_state) carries
RunState(rs, r) == rs[r].st

\* ask(user_id, text), lines 412-428, and newlead(raw), lines 417-430
RunCall(r) ==
  /\ runs[r].node = "idle"
  /\ \E api \in {"ask", "newlead"} :
       runs' = [runs EXCEPT ![r] =
                  [api |-> api,
                   node |-> IF api = "ask" THEN "ingest_node" ELSE "parse_lead_node",
                   st |-> IF api = "ask" THEN PipelineState(r, r, 0)
                                         ELSE PipelineState(r, 0, r),
                   result |-> NoRunResult]]
  /\ UNCHANGED outside_runs

\* one node of run r executes
RunNode(r) ==
  /\ runs[r].node \notin {"idle", "END", "returned"}
  /\ \E ok \in BOOLEAN :
       runs' = [runs EXCEPT ![r].st = NodeResult(runs[r].node, RunState(runs, r), ok),
                            ![r].node = NextNode(runs[r].node)]
  /\ UNCHANGED outside_runs

\* ask, lines 430-438, and newlead, lines 432-436: the caller gets its result
RunReturn(r) ==
  /\ runs[r].node = "END"
  /\ LET st == runs[r].st
     IN runs' = [runs EXCEPT
          ![r].node = "returned",
          ![r].result =
            IF st.error # 0
              THEN RunResult("raised", 0, 0, 0, 0, 0, st.error)
              ELSE IF runs[r].api = "ask"
                     THEN RunResult("returned", st.answer, st.citations,
                                    st.confidence, 0, st.request_id, 0)
                     ELSE RunResult("returned", 0, 0, 0, st.enriched_lead, 0, 0)]
  /\ UNCHANGED outside_runs

RunsInit == runs = [r \in Requests |-> RunIdle]

InitRuns ==
  /\ RunsInit
  /\ BreakerUnused /\ RetryUnused /\ GraphIdle /\ ThreadsIdle /\ ClassifierIdle /\ HandlerUnused

NextRuns == \E r \in Requests : RunCall(r) \/ RunNode(r) \/ RunReturn(r)

SpecRuns == InitRuns /\ [][NextRuns]_vars

\* handle_errors on its own
InitHandle ==
  /\ HandlerInit
  /\ BreakerUnused /\ RetryUnused /\ GraphIdle
  /\ ThreadsIdle /\ RunsIdle /\ ClassifierIdle

NextHandle == HandledCall

SpecHandle == InitHandle /\ [][NextHandle]_vars

\* the classifier on its own
InitClassify ==
  /\ ClassifierIdle /\ HandlerUnused
  /\ BreakerUnused /\ RetryUnused /\ GraphIdle /\ ThreadsIdle /\ RunsIdle

NextClassify == ClassifyCall \/ Classify

SpecClassify == InitClassify /\ [][NextClassify]_vars

(***************************************************************************)
(* Properties of the circuit breaker                                       *)
(***************************************************************************)
\* the breaker's state and last_failure_time before the i-th completed call
PrePost(i) == IF i = 1 THEN "CLOSED" ELSE hist[i-1].post

PreLft(i) == IF i = 1 THEN NoTime ELSE hist[i-1].lft

PreCount(i) == IF i = 1 THEN 0 ELSE hist[i-1].fc

Failed(i) == hist[i].out.code = "SERVICE_CALL_FAILED"

Rejected(i) == hist[i].out.code = "CIRCUIT_BREAKER_OPEN"

AllFailedUpTo(k) == \A i \in 1..k : Failed(i)

\* C3: from a fresh breaker with threshold N, the breaker is CLOSED after each
\* of the first N-1 consecutive failing calls and OPEN right after the N-th.
C3_ThresholdOpens ==
  \A k \in 1..Len(hist) :
    AllFailedUpTo(k) =>
      /\ (k < failure_threshold => hist[k].post = "CLOSED")
      /\ (k = failure_threshold => hist[k].post = "OPEN")
      /\ (k = Len(hist) /\ b_pc = "idle" => state = hist[k].post)

C3_Witness ==
  /\ failure_threshold >= 2
  /\ Len(hist) = failure_threshold
  /\ AllFailedUpTo(Len(hist))
  /\ b_pc = "idle"
  /\ state = "OPEN"

\* C4: a call that starts while the breaker is OPEN and at most reset_timeout
\* has passed since the last failure is rejected with the circuit-open error,
\* does not invoke the operation and leaves state, failure_count and
\* last_failure_time as they were.
C4_OpenRejects ==
  [][ ( /\ b_pc = "idle"
        /\ state = "OPEN"
        /\ now - last_failure_time <= reset_timeout
        /\ (b_pc' # b_pc \/ hist' # hist) )
      => ( /\ b_pc' = "idle"
           /\ Len(hist') = Len(hist) + 1
           /\ hist'[Len(hist')].out.code = "CIRCUIT_BREAKER_OPEN"
           /\ hist'[Len(hist')].inv = 0
           /\ state' = state
           /\ failure_count' = failure_count
           /\ last_failure_time' = last_failure_time ) ]_vars

C4_Witness ==
  /\ Len(hist) >= 2
  /\ Rejected(Len(hist))
  /\ state = "OPEN"
  /\ now - last_failure_time <= reset_timeout

\* C5: the first call on an OPEN breaker after more than reset_timeout is
\* attempted in HALF_OPEN; a success closes the breaker with failure_count 0,
\* a failure opens it again and the next call within reset_timeout is rejected
\* without invoking the operation.
C5_HalfOpenProbe ==
  /\ \A i \in 1..Len(hist) :
       (PrePost(i) = "OPEN" /\ hist[i].t0 - PreLft(i) > reset_timeout) =>
         /\ hist[i].st = "HALF_OPEN"
         /\ hist[i].inv >= 1
         /\ (hist[i].out.kind = "ok" => hist[i].post = "CLOSED" /\ hist[i].fc = 0)
         /\ (hist[i].out.kind # "ok" =>
               /\ hist[i].post = "OPEN"
               /\ (i < Len(hist) /\ hist[i+1].t0 - hist[i].lft <= reset_timeout
                     => Rejected(i+1) /\ hist[i+1].inv = 0))
  /\ (b_pc = "in_func" /\ Len(hist) > 0 /\ hist[Len(hist)].post = "OPEN")
       => (state = "HALF_OPEN" /\ b_entry.st = "HALF_OPEN")

C5_Witness ==
  \E i \in 1..Len(hist) :
    /\ i < Len(hist)
    /\ hist[i].st = "HALF_OPEN"
    /\ Failed(i)
    /\ Rejected(i+1)

C5_WitnessRecovered ==
  \E i \in 1..Len(hist) :
    /\ hist[i].st = "HALF_OPEN"
    /\ hist[i].out.kind = "ok"
    /\ PreCount(i) >= 2

(***************************************************************************)
(* Properties of retry_on_error                                            *)
(***************************************************************************)
TransientAt(i) ==
  outcomes[i].kind \in {"IntegrationError", "ConnectionError", "TimeoutError"}

AllTransient == \A i \in 1..Len(outcomes) : TransientAt(i)

\* C6: with max_retries >= 1, a call whose every attempt fails with a
\* transient error is invoked exactly max_retries + 1 times; the i-th sleep is
\* delay * backoff_factor^(i-1) and there is no sleep after the last attempt.
C6_BackoffSequence ==
  (max_retries >= 1 /\ AllTransient) =>
    /\ \A i \in 1..Len(sleeps) : sleeps[i] = delay * Pow(backoff_factor, i - 1)
    /\ Len(outcomes) <= max_retries + 1
    /\ (r_pc = "done" => /\ Len(outcomes) = max_retries + 1
                         /\ Len(sleeps) = max_retries)
    /\ (r_pc = "try" => Len(sleeps) = Len(outcomes))

C6_Witness ==
  /\ max_retries = 3
  /\ delay = 1
  /\ backoff_factor = 2
  /\ r_pc = "done"
  /\ AllTransient
  /\ sleeps = <<1, 2, 4>>

\* C7: an error that is not an IntegrationError, ConnectionError or
\* TimeoutError ends the call at the attempt that raised it: it is delivered
\* unchanged, no attempt follows and no sleep follows.
C7_NonTransientPropagates ==
  \A i \in 1..Len(outcomes) :
    (outcomes[i].kind \notin {"ok", "none"} /\ ~TransientAt(i)) =>
      /\ i = Len(outcomes)
      /\ r_pc = "done"
      /\ r_result = outcomes[i]
      /\ Len(sleeps) = i - 1

C7_Witness ==
  /\ r_pc = "done"
  /\ Len(outcomes) = 3
  /\ max_retries = 3
  /\ outcomes[3].kind = "ValidationError"
  /\ r_result.kind = "ValidationError"

\* C8: when the retries are exhausted the delivered error is the last
\* transient error, carrying the number of attempts that were made.
C8_WrappedWithAttempts ==
  (r_pc = "done" /\ max_retries >= 1 /\ Len(outcomes) = max_retries + 1
     /\ TransientAt(Len(outcomes))) =>
    /\ r_result.kind = outcomes[Len(outcomes)].kind
    /\ r_result.attempts = Len(outcomes)

(***************************************************************************)
(* Properties of the composition                                           *)
(***************************************************************************)
\* C9: through breaker.call(retry_on_error(op)), a logical call whose every
\* attempt fails raises failure_count by exactly 1 whatever max_retries is,
\* and a logical call that succeeds after failed attempts does not raise it.
C9_OneFailurePerLogicalCall ==
  \A i \in 1..Len(hist) :
    /\ (hist[i].inv >= 1 /\ hist[i].nfail = hist[i].inv)
         => (Failed(i) /\ hist[i].fc = PreCount(i) + 1)
    /\ (hist[i].inv >= 1 /\ hist[i].nfail < hist[i].inv)
         => (hist[i].out.kind = "ok" /\ hist[i].fc <= PreCount(i))

C9_Witness ==
  \E i \in 1..Len(hist) :
    /\ i < Len(hist)
    /\ hist[i].inv = 3
    /\ hist[i].nfail = 3
    /\ hist[i].fc = PreCount(i) + 1
    /\ hist[i+1].inv >= 2
    /\ hist[i+1].out.kind = "ok"
    /\ hist[i+1].fc = hist[i].fc

(***************************************************************************)
(* Properties of the graphs                                                *)
(***************************************************************************)
AllExternalCallsSucceeded == \A i \in 1..Len(ext_calls) : ext_calls[i].ok

\* C1: ask on a non-empty question, with every embedding, vector-store and
\* generation call succeeding, returns a KnowledgeAnswer carrying the answer,
\* citations and confidence of the final state, not an error.
C1_AskReturnsAnswer ==
  ( /\ g_api = "ask"
    /\ g_node = "returned"
    /\ kstate.query.truthy
    /\ AllExternalCallsSucceeded )
  => ( /\ g_result.kind = "KnowledgeAnswer"
       /\ g_result.answer = kstate.answer
       /\ g_result.citations = kstate.citations
       /\ g_result.confidence = kstate.confidence )

\* C2: once a node has written an error, the run executes no further node,
\* makes no further external call, and the caller receives a failure.
C2_StopsAtFirstError ==
  g_err_at # 0 =>
    /\ Len(g_trace) = g_err_at
    /\ \A i \in 1..Len(ext_calls) : ext_calls[i].step <= g_err_at
    /\ (g_node = "returned" => g_result.kind = "Exception")

\* C10: every call to an external collaborator goes through a circuit breaker
\* wrapping a retry of the operation.
C10_CallsThroughResilienceLayer ==
  \A i \in 1..Len(ext_calls) : ext_calls[i].via = "breaker.call(retry)"

\* C11: the error a breaker raises while OPEN (IntegrationError with code
\* CIRCUIT_BREAKER_OPEN) is not retried: the wrapper delivers it after the
\* single attempt that raised it, without a backoff sleep (stated for
\* max_retries >= 1, where a retry is possible at all).
C11_CircuitOpenNotRetried ==
  \A i \in 1..Len(outcomes) :
    (max_retries >= 1 /\ outcomes[i].code = "CIRCUIT_BREAKER_OPEN") =>
      /\ i = Len(outcomes)
      /\ r_pc = "done"
      /\ r_result = outcomes[i]
      /\ Len(sleeps) = i - 1

\* the calls that failed and have returned to their callers
CompletedFailures == {t \in DOMAIN t_pc : t_pc[t] = "failed"}

\* C12: under every interleaving of concurrent failing calls no update of
\* failure_count is lost: the count is at least the number of completed
\* failing calls, it equals that number once no call is in flight, and the
\* breaker is OPEN when the completed failures have reached the threshold.
C12_NoLostUpdate ==
  LET n == Cardinality(CompletedFailures)
  IN /\ failure_count >= n
     /\ (\A t \in DOMAIN t_pc : t_pc[t] \in {"failed", "returned", "rejected"})
          => failure_count = n
     /\ n >= failure_threshold => state = "OPEN"

\* C14: classify with has_attachments = true returns knowledge_qa with
\* confidence 0.9 and empty entities, whatever the message and the context,
\* and makes no call to the generation service.
C14_AttachmentShortCircuit ==
  (cl_pc = "returned" /\ cl_request.has_attachments) =>
    /\ cl_result.kind = "returned"
    /\ cl_result.value.intent = "knowledge_qa"
    /\ cl_result.value.confidence = 90
    /\ cl_result.value.entities = EmptyEntities
    /\ cl_calls = 0
    /\ cl_outcome = NoOutcome

C14_Witness ==
  /\ cl_pc = "returned"
  /\ cl_request.has_attachments
  /\ cl_request.message # ""
  /\ cl_request.context # "None"
  /\ cl_result.value.intent = "knowledge_qa"

\* C15: classify never raises.  Without attachments it returns a
\* classification for every outcome of the model call, and when the call
\* fails or its response does not parse the result is unknown, confidence
\* 0.1, empty entities and a reasoning that names the failure.
C15_ClassifyNeverRaises ==
  (cl_pc = "returned" /\ ~cl_request.has_attachments) =>
    /\ cl_result.kind = "returned"
    /\ cl_calls = 1
    /\ cl_outcome.kind = "parsed" => cl_result.value = cl_outcome.value
    /\ cl_outcome.kind \in {"call_failed", "unparsable"} =>
         /\ cl_result.value.intent = "unknown"
         /\ cl_result.value.confidence = 10
         /\ cl_result.value.entities = EmptyEntities
         /\ cl_result.value.reasoning =
              Reasoning("Classification failed: ", cl_outcome.error)
         /\ cl_outcome.error # ""

C15_Witness ==
  /\ cl_pc = "returned"
  /\ ~cl_request.has_attachments
  /\ cl_outcome.kind = "unparsable"
  /\ cl_result.value.intent = "unknown"

\* a second failure outcome: the model call itself raised
C15_WitnessCallFailed ==
  /\ cl_pc = "returned"
  /\ cl_outcome.kind = "call_failed"
  /\ cl_result.kind = "returned"

\* C16: the intent of every classification returned by classify is one of
\* the seven intents of the closed set.
C16_IntentInClosedSet ==
  (cl_pc = "returned" /\ cl_result.kind = "returned") =>
    cl_result.value.intent \in Intents

\* C13: pipeline state is request-local.  Under every interleaving of the
\* requests served by one agent instance, each field of a run's state and of
\* its result is empty or was computed from that run's own request.
C13_RequestLocal ==
  \A r \in DOMAIN runs :
    /\ \A f \in StateFields : runs[r].st[f] \in {0, r}
    /\ \A f \in ResultFields : runs[r].result[f] \in {0, r}

\* two runs interleave: the second is between two nodes, holding documents
\* retrieved for it, while the first has been delivered a lead
C13_Witness ==
  /\ DOMAIN runs # {}
  /\ runs[1].node = "returned"
  /\ runs[1].result.kind = "returned"
  /\ runs[1].result.lead = 1
  /\ runs[2].node = "answer_node"
  /\ runs[2].st.retrieved_docs = 2

\* the last call made to a collaborator, or a call to nothing
LastExtCall(calls) ==
  IF calls = <<>> THEN ExtCall("none", "raise") ELSE calls[Len(calls)]

\* the step taken is a retrieve whose query of the collection returned no match
RetrieveFindsNothing ==
  /\ g_node = "retrieve_node"
  /\ Len(ext_calls') = Len(ext_calls) + 2
  /\ LastExtCall(ext_calls').svc = "collection.query"
  /\ LastExtCall(ext_calls').ok
  /\ LastExtCall(ext_calls').results = 0

\* the step taken is the answer step that follows such a retrieve
AnswerAfterNothing ==
  /\ g_node = "answer_node"
  /\ g_node' = "reflect_node"
  /\ LastExtCall(ext_calls).svc = "collection.query"
  /\ LastExtCall(ext_calls).ok
  /\ LastExtCall(ext_calls).results = 0
  /\ LastExtCall(ext_calls).step = Len(g_trace)

\* C17: when the vector store returns zero matches, retrieve writes an empty
\* retrieved sequence and no error, and the answer step that follows writes
\* the fixed no-information answer with confidence 0.1 and no citations,
\* writes no error and calls no collaborator.
C17_NoMatchesNoInformation ==
  [][ /\ RetrieveFindsNothing =>
           /\ kstate'.retrieved_docs = <<>>
           /\ kstate'.error = kstate.error
      /\ AnswerAfterNothing =>
           /\ kstate'.answer = Answer("noinfo", 0)
           /\ kstate'.confidence = 10
           /\ kstate'.citations = <<>>
           /\ kstate'.error = kstate.error
           /\ ext_calls' = ext_calls ]_vars

C17_Witness ==
  /\ g_node = "reflect_node"
  /\ Len(g_trace) >= 2
  /\ g_trace[Len(g_trace)] = "answer_node"
  /\ LastExtCall(ext_calls).svc = "collection.query"
  /\ LastExtCall(ext_calls).ok
  /\ LastExtCall(ext_calls).results = 0
  /\ LastExtCall(ext_calls).step = Len(g_trace) - 1
  /\ kstate.answer = Answer("noinfo", 0)
  /\ kstate.citations = <<>>

\* C18: retrieve given an empty or whitespace-only query calls neither the
\* embedding service nor the vector store and fails with the precondition
\* error.
C18_BlankQueryRejected ==
  [][ (g_node = "retrieve_node" /\ IsBlank(kstate.query)) =>
        /\ ext_calls' = ext_calls
        /\ kstate'.error = "No query provided" ]_vars

\* C19: reflect leaves the answer followed by the clarification note when
\* confidence is below 0.3, and leaves the answer unchanged otherwise.
C19_ClarificationIffLowConfidence ==
  [][ g_node = "reflect_node" =>
        kstate'.answer = IF kstate.confidence < 30
                           THEN WithClarification(kstate.answer)
                           ELSE kstate.answer ]_vars

\* C20: the quality-check request of reflect does not alter state: from one
\* input state, reflect returns the same state whatever the request does.
C20_QualityCheckDoesNotAlterState ==
  g_node = "reflect_node" =>
    \A o1, o2 \in ExtOutcomes :
      ReflectResult(kstate, o1) = ReflectResult(kstate, o2)

\* C21: after reflect exactly one route is taken: to schedule_parse when the
\* query holds a scheduling keyword and at least one hint was extracted from
\* it (follow_up_info is present), and to the terminal marker otherwise.
C21_RouteAfterReflect ==
  [][ g_node = "reflect_node" =>
        /\ kstate'.follow_up_info =
             (IF kstate.query.kw THEN Extracted(kstate.query.keys) ELSE NoFollowUp)
        /\ g_node' = IF kstate.query.kw /\ kstate.query.keys # {}
                       THEN "schedule_parse_node"
                       ELSE "END" ]_vars

\* reflect has just routed a run to schedule_parse
C21_Witness ==
  /\ g_node = "schedule_parse_node"
  /\ g_trace # <<>>
  /\ g_trace[Len(g_trace)] = "reflect_node"
  /\ kstate.follow_up_info = Extracted({"time", "day"})

\* a keyword without any hint: reflect has routed the run to the end
C21_WitnessNoHint ==
  /\ g_node = "END"
  /\ g_trace # <<>>
  /\ g_trace[Len(g_trace)] = "reflect_node"
  /\ kstate.query.kw
  /\ kstate.follow_up_info = Extracted({})

\* C22: for every text from which no day and no time can be extracted,
\* followup_parse does not fail and returns a schedule that starts tomorrow at
\* 10:00 and ends one hour later.
C22_FollowupParseDefault ==
  (/\ g_api = "followup_parse"
   /\ g_node = "returned"
   /\ kstate.query.keys \cap DayTimeKeys = {}) =>
    /\ g_result.kind = "FollowUpSchedule"
    /\ g_result.schedule = Schedule(1, 10, 1)

\* C23: single-step execution is idempotent.  With the collaborators stubbed
\* to one outcome, running reflect, schedule_parse or _classify_status a
\* second time on the state the first run returned yields that state again.
C23_SingleStepIdempotent ==
  /\ g_node = "reflect_node" =>
       \A o \in ExtOutcomes :
         ReflectResult(ReflectResult(kstate, o), o) = ReflectResult(kstate, o)
  /\ g_node = "schedule_parse_node" =>
       ParseScheduling(ParseScheduling(kstate)) = ParseScheduling(kstate)
  /\ g_api = "status_classify" =>
       \A o \in ExtOutcomes : \A content \in StatusContents :
         LET first == ClassifyStatus(InitialDState(dstate.raw_text), o, content)
         IN ClassifyStatus(first, o, content) = first

\* number of retrieved chunks whose text is longer than 100 characters
LongChunks(docs) == Cardinality({i \in 1..Len(docs) : Long(docs[i])})

\* C24: after answer has run on 1 to 5 retrieved chunks, confidence is the
\* fraction of the chunks whose text is longer than 100 characters, capped at
\* 0.9, and so lies within [0, 0.9] (hundredths: c * n = 100 * long below the cap).
C24_ConfidenceIsFraction ==
  [][ (/\ g_node = "answer_node"
       /\ kstate.retrieved_docs # <<>>
       /\ Len(ext_calls') = Len(ext_calls) + 1
       /\ LastExtCall(ext_calls').ok) =>
        LET n == Len(kstate.retrieved_docs)
            long == LongChunks(kstate.retrieved_docs)
        IN /\ kstate'.confidence >= 0
           /\ kstate'.confidence <= 90
           /\ IF 100 * long >= 90 * n
                THEN kstate'.confidence = 90
                ELSE kstate'.confidence * n = 100 * long ]_vars

\* the steps of the two graphs in the order of their edges
KnowledgeOrder ==
  <<"ingest_node", "retrieve_node", "answer_node", "reflect_node",
    "schedule_parse_node">>

DealflowOrder == <<"parse_lead_node", "enrich_lead_node">>

\* position of a step in an order (0: it is not in it)
PositionIn(order, node) ==
  IF \E i \in 1..Len(order) : order[i] = node
    THEN CHOOSE i \in 1..Len(order) : order[i] = node
    ELSE 0

\* the trace runs through the order forwards, so no step occurs twice
InOrder(trace, order) ==
  /\ \A i \in 1..Len(trace) : PositionIn(order, trace[i]) > 0
  /\ \A i, j \in 1..Len(trace) :
       i < j => PositionIn(order, trace[i]) < PositionIn(order, trace[j])

\* C25: every full-graph run terminates without executing a step twice: the
\* knowledge graph executes at most its 5 steps, in the order ingest,
\* retrieve, answer, reflect, schedule_parse, the dealflow graph exactly
\* parse_lead then enrich_lead, and a run that has not returned can always
\* take its next step.
C25_RunsTerminate ==
  /\ g_api \in {"ask", "ingest"} =>
       /\ InOrder(g_trace, KnowledgeOrder)
       /\ Len(g_trace) <= 5
       /\ g_node \in {"END", "returned"} => Len(g_trace) >= 1
  /\ g_api = "newlead" =>
       /\ InOrder(g_trace, DealflowOrder)
       /\ g_node \in {"END", "returned"} => g_trace = DealflowOrder
  /\ (g_api \in {"ask", "ingest", "newlead"} /\ g_node # "returned") =>
       ENABLED NextGraph

\* a run of the knowledge graph that executed all five steps has returned
C25_Witness ==
  /\ g_api = "ask"
  /\ g_node = "returned"
  /\ g_trace = KnowledgeOrder

\* a run of the dealflow graph has returned
C25_WitnessDealflow ==
  /\ g_api = "newlead"
  /\ g_node = "returned"
  /\ g_trace = DealflowOrder

\* C26: with no default_response, the error leaving a function decorated with
\* handle_errors is the generic error with code UNEXPECTED_ERROR exactly when
\* the function raised an exception outside the taxonomy, and a CopilotError
\* of any subclass leaves unchanged, with its own error_code, for every
\* error_type.
C26_UnexpectedIffUnclassified ==
  (h_pc = "done" /\ h_default = "None" /\ IsError(h_raised)) =>
    IF h_raised.kind \in CopilotClasses
      THEN h_result = h_raised
      ELSE h_result = UnexpectedError

\* C27: a successful call through the breaker leaves failure_count at 0 in
\* whichever state the call was attempted, CLOSED as well as HALF_OPEN.
C27_SuccessResetsCount ==
  \A i \in 1..Len(hist) :
    hist[i].out = Ok => hist[i].fc = 0

\* C28: for every max_retries >= 0, when the final attempt fails with a
\* transient error, the error delivered to the caller is the error that the
\* final attempt raised (same kind and code).
C28_FinalTransientErrorPropagates ==
  (r_pc = "done" /\ Len(outcomes) = max_retries + 1
     /\ TransientAt(Len(outcomes))) =>
    /\ r_result.kind = outcomes[Len(outcomes)].kind
    /\ r_result.code = outcomes[Len(outcomes)].code
    /\ r_result.raised_at = Len(outcomes)

\* C29: schedule parsing in the dealflow agent is total: for every text,
\* nextstep_parse returns a schedule whose end is exactly one hour after its
\* start, and never ends in an error.
C29_NextstepParseTotal ==
  (g_api = "nextstep_parse" /\ g_node = "returned") =>
    /\ g_result.kind = "NextStepSchedule"
    /\ g_result.next_step.kind = "dict"
    /\ g_result.next_step.end = g_result.next_step.start + 60

\* C30: between sequential calls the breaker is CLOSED with failure_count
\* below the threshold, or OPEN with failure_count at or above it and
\* last_failure_time set; no returned call leaves it HALF_OPEN.
C30_BreakerStateBetweenCalls ==
  b_pc = "idle" =>
    \/ (state = "CLOSED" /\ failure_count < failure_threshold)
    \/ (/\ state = "OPEN"
        /\ failure_count >= failure_threshold
        /\ last_failure_time # NoTime)

\* a probe made in HALF_OPEN has failed and the breaker is OPEN again, and a
\* probe has succeeded before
C30_Witness ==
  /\ b_pc = "idle"
  /\ state = "OPEN"
  /\ Len(hist) >= 2
  /\ hist[Len(hist)].st = "HALF_OPEN"
  /\ hist[Len(hist)].out = ServiceCallFailed
  /\ failure_count > failure_threshold

\* a probe has succeeded: the breaker is CLOSED with the count at 0
C30_WitnessClosed ==
  /\ b_pc = "idle"
  /\ state = "CLOSED"
  /\ hist # <<>>
  /\ hist[Len(hist)].st = "HALF_OPEN"
  /\ hist[Len(hist)].out = Ok
====
